---- MODULE Spec2Model ----
(***************************************************************************)
(* Model of the swerve bring-up code: subsystems/drive.py (class Drive)    *)
(* and robot.py (class Robot).                                             *)
(*                                                                         *)
(* Numbers.  Joystick inputs, deadbands and gains are rationals with       *)
(* denominator Scale, held as their integer numerators.  A gain-scaled     *)
(* value (input * gain) and every duty cycle is a rational with            *)
(* denominator Scale*Scale, so that all the arithmetic of Drive.drive is   *)
(* exact.  The float NaN is the one extra value NaN; every comparison      *)
(* with it is false and every sum or product with it is NaN, as in Python. *)
(***************************************************************************)
EXTENDS Integers, Sequences, FiniteSets

\* ---------------------------------------------------------------- bounds
Scale == 2
MaxIn == 3
MaxGain == 2
MaxCmds == 2

MaxDeadband == MaxIn - 1
One == Scale * Scale
NaN == 0 - 1000 * One * MaxIn * MaxGain
NoCmd == NaN - 1

\* ------------------------------------------------------- float arithmetic
IsNaN(v) == v = NaN
FAdd(a, b) == IF IsNaN(a) \/ IsNaN(b) THEN NaN ELSE a + b
FSub(a, b) == IF IsNaN(a) \/ IsNaN(b) THEN NaN ELSE a - b
FMul(a, b) == IF IsNaN(a) \/ IsNaN(b) THEN NaN ELSE a * b
FAbs(a) == IF IsNaN(a) THEN NaN ELSE IF a < 0 THEN 0 - a ELSE a
FLt(a, b) == ~IsNaN(a) /\ ~IsNaN(b) /\ a < b
\* Python's min(a, b) and max(a, b): the first argument unless the second
\* compares strictly smaller (larger).
PyMin(a, b) == IF FLt(b, a) THEN b ELSE a
PyMax(a, b) == IF FLt(a, b) THEN b ELSE a

\* ------------------------------------------------------------------ state
VARIABLES
    phoenix,             \* TalonFX and DutyCycleOut were importable
    dtCand,              \* what probing each drivetrain candidate module meets
    afCand,              \* what probing each autonomous-factory candidate meets
    phase,               \* "new", "constructed" or "failed" (Drive.__init__)
    probes,              \* importlib.import_module calls made, in order
    built,               \* candidates whose class constructor was called
    cfg,                 \* DriveConstants: deadbands and gains
    tuner_drivetrain,    \* Drive.tuner_drivetrain
    autonomous_factory,  \* Drive._autonomous_factory (0 is None)
    drive_motors,        \* last duty cycle commanded to each drive motor
    steer_motors,        \* last duty cycle commanded to each steer motor
    last,                \* what the most recent Drive call did
    mode,                \* the host runtime's mode
    pos,                 \* where the host's loop iteration stands
    autonomous_command,  \* Robot.autonomous_command (0 is None)
    scheduled,           \* commands the scheduler holds as scheduled
    cancelled,           \* commands Robot called cancel() on
    made                 \* number of commands get_autonomous_command returned

ctorVars == <<phoenix, dtCand, afCand, phase, probes, built>>
driveVars == <<cfg, tuner_drivetrain, autonomous_factory, drive_motors, steer_motors, last>>
robotVars == <<mode, pos, autonomous_command, scheduled, cancelled, made>>
vars == <<ctorVars, driveVars, robotVars>>

\* DriveConstants.MODULES: the fixed four-wheel arrangement.
NumModules == 4

\* The absent override; a present one records which candidate built it and
\* whether its drive and get_autonomous_command attributes are callable.
None == [cand |-> 0, drive |-> FALSE, getter |-> FALSE]
Overrides == [cand : 1..3, drive : BOOLEAN, getter : BOOLEAN]

Inputs == (0 - MaxIn)..MaxIn \cup {NaN}
Cfgs == [TRANSLATION_DEADBAND : 0..MaxDeadband, ROTATION_DEADBAND : 0..MaxDeadband,
         MAX_TRANSLATION_OUTPUT : 1..MaxGain, MAX_ROTATION_OUTPUT : 1..MaxGain]

NoCall == [op |-> "none", args |-> <<0, 0, 0, FALSE>>, outcome |-> "none",
           tunerCalls |-> <<>>, issued |-> <<>>, getterCalls |-> 0,
           factoryCalls |-> <<>>, warned |-> FALSE, ret |-> "none",
           via |-> "direct", env |-> <<>>, prev |-> <<>>]

\* ---------------------------------------------------------- Drive helpers
\* Variant: the deadband compares the signed value, not its magnitude.
_apply_deadband_signed(value, deadband) ==
    IF FLt(value, deadband) THEN 0 ELSE value

_apply_deadband(value, deadband) ==
    IF FLt(FAbs(value), deadband) THEN 0 ELSE value

\* Variant: the ceiling only, no floor at -1.
_clamp_ceiling_only(value) == PyMin(One, value)

_clamp(value) == PyMax(0 - One, PyMin(One, value))

\* x, y, omega after the deadband and the gain (drive.py 119-125)
Shaped(x_displacement, y_displacement, rotation) ==
    [x |-> FMul(_apply_deadband(x_displacement, cfg.TRANSLATION_DEADBAND),
                cfg.MAX_TRANSLATION_OUTPUT),
     y |-> FMul(_apply_deadband(y_displacement, cfg.TRANSLATION_DEADBAND),
                cfg.MAX_TRANSLATION_OUTPUT),
     omega |-> FMul(_apply_deadband(rotation, cfg.ROTATION_DEADBAND),
                    cfg.MAX_ROTATION_OUTPUT)]

\* Variant: front right and back left take each other's rotation sign.
DriveOutputs_swapped(s) ==
    << _clamp(FAdd(FAdd(s.x, s.y), s.omega)),
       _clamp(FAdd(FSub(s.x, s.y), s.omega)),
       _clamp(FSub(FSub(s.x, s.y), s.omega)),
       _clamp(FSub(FAdd(s.x, s.y), s.omega)) >>

\* drive_outputs (drive.py 128-133)
DriveOutputs(s) ==
    << _clamp(FAdd(FAdd(s.x, s.y), s.omega)),
       _clamp(FSub(FSub(s.x, s.y), s.omega)),
       _clamp(FAdd(FSub(s.x, s.y), s.omega)),
       _clamp(FSub(FAdd(s.x, s.y), s.omega)) >>

SteerOutput(s) == _clamp(s.omega)

MinOf(a, b) == IF a < b THEN a ELSE b

\* for motor, output in zip(motors, outputs): motor.set_control(DutyCycleOut(output))
ZipSet(motors, outputs) ==
    [i \in 1..Len(motors) |-> IF i <= Len(outputs) THEN outputs[i] ELSE motors[i]]
ZipIssued(group, motors, outputs) ==
    [i \in 1..MinOf(Len(motors), Len(outputs)) |-> <<group, i, outputs[i]>>]

\* for motor in motors: motor.set_control(DutyCycleOut(output))
SetAll(motors, output) == [i \in 1..Len(motors) |-> output]
AllIssued(group, motors, output) == [i \in 1..Len(motors) |-> <<group, i, output>>]

\* ------------------------------------------------------------ Drive.drive
\* beh is what the override's drive does when called: "returns", "TypeError"
\* or "Exception" (any other exception).
\* Variant: the override is used without asking whether its drive is callable.
Delegates_unchecked == tuner_drivetrain # None

Delegates == tuner_drivetrain # None /\ tuner_drivetrain.drive

\* Variant: every exception of the override's drive is swallowed.
RunsMixer_any_exception(beh) ==
    ~(tuner_drivetrain # None /\ tuner_drivetrain.drive) \/ beh # "returns"

RunsMixer(beh) == ~Delegates \/ beh = "TypeError"

DriveCall(x_displacement, y_displacement, rotation, field_oriented, beh) ==
    LET args == <<x_displacement, y_displacement, rotation, field_oriented>>
        s == Shaped(x_displacement, y_displacement, rotation)
        calls == IF Delegates THEN <<args>> ELSE <<>>
    IN  /\ phase = "constructed"
        /\ IF RunsMixer(beh)
           THEN /\ drive_motors' = ZipSet(drive_motors, DriveOutputs(s))
                /\ steer_motors' = SetAll(steer_motors, SteerOutput(s))
                /\ last' = [NoCall EXCEPT !.op = "drive", !.args = args, !.env = <<beh>>,
                               !.outcome = "mixer", !.tunerCalls = calls,
                               !.issued = ZipIssued("drive", drive_motors, DriveOutputs(s))
                                          \o AllIssued("steer", steer_motors, SteerOutput(s))]
           ELSE /\ UNCHANGED <<drive_motors, steer_motors>>
                /\ last' = [NoCall EXCEPT !.op = "drive", !.args = args, !.env = <<beh>>,
                               !.outcome = IF beh = "returns" THEN "delegated" ELSE "raised",
                               !.tunerCalls = calls]
        /\ UNCHANGED <<cfg, tuner_drivetrain, autonomous_factory>>

\* Variant: stop() zeroes the drive motors and forgets the steer motors.
StopCall_drive_only(via) ==
    /\ phase = "constructed"
    /\ drive_motors' = SetAll(drive_motors, 0)
    /\ last' = [NoCall EXCEPT !.op = "stop", !.outcome = "stopped", !.via = via,
                   !.prev = drive_motors \o steer_motors,
                   !.issued = AllIssued("drive", drive_motors, 0)]
    /\ UNCHANGED <<cfg, tuner_drivetrain, autonomous_factory, steer_motors>>

\* ------------------------------------------------------------- Drive.stop
\* via is "direct" for a call of stop() and "command" when the stop command
\* built by get_autonomous_command runs it.
StopCall(via) ==
    /\ phase = "constructed"
    /\ drive_motors' = SetAll(drive_motors, 0)
    /\ steer_motors' = SetAll(steer_motors, 0)
    /\ last' = [NoCall EXCEPT !.op = "stop", !.outcome = "stopped", !.via = via,
                   !.prev = drive_motors \o steer_motors,
                   !.issued = AllIssued("drive", drive_motors, 0)
                              \o AllIssued("steer", steer_motors, 0)]
    /\ UNCHANGED <<cfg, tuner_drivetrain, autonomous_factory>>

\* ------------------------------------------- Drive.get_autonomous_command
\* g is what the override's get_autonomous_command does when called, f1 what
\* the factory does when called with no argument and f2 what it does when
\* called with the Drive: "command" (returns an object with a schedule
\* attribute), "None", "no_schedule" (returns an object without one),
\* "TypeError" or "Exception" (any other exception).
CallOutcomes == {"command", "None", "no_schedule", "TypeError", "Exception"}
Raises(o) == o \in {"TypeError", "Exception"}

\* Variant: the factory is asked before the override.
AutoResult_factory_first(g, f1, f2) ==
    LET getter == tuner_drivetrain # None /\ tuner_drivetrain.getter
        base == [NoCall EXCEPT !.op = "get_autonomous_command", !.env = <<g, f1, f2>>]
        fcalls == IF f1 = "TypeError" THEN <<"noargs", "self">> ELSE <<"noargs">>
        fres == IF f1 = "TypeError" THEN f2 ELSE f1
    IN  IF autonomous_factory # 0 /\ Raises(fres)
        THEN [base EXCEPT !.outcome = "raised", !.factoryCalls = fcalls]
        ELSE IF autonomous_factory # 0 /\ fres = "command"
        THEN [base EXCEPT !.outcome = "returned", !.ret = "factory",
                          !.factoryCalls = fcalls]
        ELSE IF getter /\ Raises(g)
        THEN [base EXCEPT !.outcome = "raised", !.getterCalls = 1]
        ELSE IF getter /\ g = "command"
        THEN [base EXCEPT !.outcome = "returned", !.ret = "override", !.getterCalls = 1]
        ELSE [base EXCEPT !.outcome = "returned", !.ret = "stop", !.warned = TRUE,
                          !.getterCalls = IF getter THEN 1 ELSE 0,
                          !.factoryCalls = IF autonomous_factory # 0 THEN fcalls ELSE <<>>]

UsesGetter == tuner_drivetrain # None /\ tuner_drivetrain.getter

AutoResult(g, f1, f2) ==
    LET base == [NoCall EXCEPT !.op = "get_autonomous_command", !.env = <<g, f1, f2>>,
                               !.getterCalls = IF UsesGetter THEN 1 ELSE 0]
        fcalls == IF f1 = "TypeError" THEN <<"noargs", "self">> ELSE <<"noargs">>
        fres == IF f1 = "TypeError" THEN f2 ELSE f1
    IN  IF UsesGetter /\ Raises(g)
        THEN [base EXCEPT !.outcome = "raised"]
        ELSE IF UsesGetter /\ g = "command"
        THEN [base EXCEPT !.outcome = "returned", !.ret = "override"]
        ELSE IF autonomous_factory # 0
        THEN IF Raises(fres)
             THEN [base EXCEPT !.outcome = "raised", !.factoryCalls = fcalls]
             ELSE IF fres = "command"
             THEN [base EXCEPT !.outcome = "returned", !.ret = "factory",
                               !.factoryCalls = fcalls]
             ELSE [base EXCEPT !.outcome = "returned", !.ret = "stop",
                               !.factoryCalls = fcalls, !.warned = TRUE]
        ELSE [base EXCEPT !.outcome = "returned", !.ret = "stop", !.warned = TRUE]

GetAutonomousCommandCall(g, f1, f2) ==
    /\ phase = "constructed"
    /\ last' = AutoResult(g, f1, f2)
    /\ UNCHANGED <<cfg, tuner_drivetrain, autonomous_factory, drive_motors, steer_motors>>

\* The behaviours of the callables that make a difference to the call.
GetterOutcomes == IF UsesGetter THEN CallOutcomes \ {"TypeError"} ELSE {"None"}
FactoryOutcomes == IF autonomous_factory # 0 THEN CallOutcomes ELSE {"None"}
RetryOutcomes(f1) == IF f1 = "TypeError" THEN CallOutcomes ELSE {"None"}
DriveOutcomes == IF Delegates THEN {"returns", "TypeError", "Exception"} ELSE {"returns"}

\* --------------------------------------------------------- Drive.__init__
\* What importing and inspecting one candidate meets.  "missing": the import
\* raises ModuleNotFoundError; "import_error": the import raises another
\* exception; "no_attr": the module lacks the class, or the function is absent
\* or not callable; "ctor_raises": the class is there and its constructor
\* raises; "ok": the class constructs, or the function is callable.
DtOutcomes == {"missing", "import_error", "no_attr", "ctor_raises", "ok"}
AfOutcomes == {"missing", "import_error", "no_attr", "ok"}
NumCandidates == 3

RECURSIVE ProbeDrivetrain(_)
ProbeDrivetrain(i) ==
    IF i > NumCandidates
    THEN [result |-> "none", cand |-> 0, probes |-> <<>>, built |-> <<>>]
    ELSE IF dtCand[i] = "import_error"
    THEN [result |-> "raised", cand |-> 0, probes |-> << <<"drivetrain", i>> >>, built |-> <<>>]
    ELSE IF dtCand[i] \in {"missing", "no_attr"}
    THEN LET rest == ProbeDrivetrain(i + 1)
         IN  [rest EXCEPT !.probes = << <<"drivetrain", i>> >> \o @]
    ELSE IF dtCand[i] = "ctor_raises"
    THEN [result |-> "none", cand |-> 0, probes |-> << <<"drivetrain", i>> >>, built |-> <<i>>]
    ELSE [result |-> "built", cand |-> i, probes |-> << <<"drivetrain", i>> >>, built |-> <<i>>]

_try_create_tuner_drivetrain == ProbeDrivetrain(1)

RECURSIVE ProbeFactory(_)
ProbeFactory(i) ==
    IF i > NumCandidates
    THEN [result |-> "none", cand |-> 0, probes |-> <<>>]
    ELSE IF afCand[i] = "import_error"
    THEN [result |-> "raised", cand |-> 0, probes |-> << <<"factory", i>> >>]
    ELSE IF afCand[i] \in {"missing", "no_attr"}
    THEN LET rest == ProbeFactory(i + 1)
         IN  [rest EXCEPT !.probes = << <<"factory", i>> >> \o @]
    ELSE [result |-> "found", cand |-> i, probes |-> << <<"factory", i>> >>]

_try_create_tuner_auto_factory == ProbeFactory(1)

\* _init_hardware: one drive and one steer handle per configured module.
_init_hardware(motors) == motors \o [i \in 1..NumModules |-> NoCmd]

\* Variant: the vendor driver is never checked.
VendorMissing_unchecked == FALSE

\* if TalonFX is None or DutyCycleOut is None
VendorMissing == ~phoenix

\* hasDrive, hasGetter: whether the constructed override's drive and
\* get_autonomous_command attributes are callable.
Construct(hasDrive, hasGetter) ==
    LET d == _try_create_tuner_drivetrain
        a == _try_create_tuner_auto_factory
        obj == IF d.result = "built"
               THEN [cand |-> d.cand, drive |-> hasDrive, getter |-> hasGetter]
               ELSE None
    IN  /\ phase = "new"
        /\ IF VendorMissing
           THEN /\ phase' = "failed"
                /\ last' = [NoCall EXCEPT !.op = "__init__", !.outcome = "RuntimeError"]
                /\ UNCHANGED <<probes, built, tuner_drivetrain, autonomous_factory,
                               drive_motors, steer_motors>>
           ELSE IF d.result = "raised"
           THEN /\ phase' = "failed"
                /\ last' = [NoCall EXCEPT !.op = "__init__", !.outcome = "ImportError"]
                /\ probes' = d.probes
                /\ built' = d.built
                /\ UNCHANGED <<tuner_drivetrain, autonomous_factory,
                               drive_motors, steer_motors>>
           ELSE IF a.result = "raised"
           THEN /\ phase' = "failed"
                /\ last' = [NoCall EXCEPT !.op = "__init__", !.outcome = "ImportError"]
                /\ probes' = d.probes \o a.probes
                /\ built' = d.built
                /\ tuner_drivetrain' = obj
                /\ UNCHANGED <<autonomous_factory, drive_motors, steer_motors>>
           ELSE /\ phase' = "constructed"
                /\ last' = [NoCall EXCEPT !.op = "__init__", !.outcome = "constructed"]
                /\ probes' = d.probes \o a.probes
                /\ built' = d.built
                /\ tuner_drivetrain' = obj
                /\ autonomous_factory' = a.cand
                /\ drive_motors' = _init_hardware(drive_motors)
                /\ steer_motors' = _init_hardware(steer_motors)
        /\ UNCHANGED <<phoenix, dtCand, afCand, cfg>>

\* ---------------------------------------------------------------- Robot
NoCommand == [id |-> 0, kind |-> "none"]

\* get_autonomous_command, then schedule() on what it returned.  A stop
\* command is a new InstantCommand each time; an override or a factory may
\* hand out a new command or one it handed out before.
AutonomousInit(g, f1, f2, id) ==
    LET res == AutoResult(g, f1, f2)
        cmd == [id |-> id, kind |-> res.ret]
    IN  /\ GetAutonomousCommandCall(g, f1, f2)
        /\ IF res.outcome = "returned"
           THEN /\ \/ id = made + 1
                   \/ res.ret # "stop" /\ cmd \in scheduled \cup cancelled
                /\ autonomous_command' = cmd
                /\ scheduled' = scheduled \cup {cmd}
                /\ made' = IF id = made + 1 THEN id ELSE made
                /\ UNCHANGED cancelled
           ELSE /\ id = made + 1
                /\ UNCHANGED <<autonomous_command, scheduled, cancelled, made>>

TeleopInit ==
    /\ IF autonomous_command # NoCommand
       THEN /\ scheduled' = scheduled \ {autonomous_command}
            /\ cancelled' = cancelled \cup {autonomous_command}
            /\ autonomous_command' = NoCommand
       ELSE UNCHANGED <<autonomous_command, scheduled, cancelled>>
    /\ UNCHANGED made

FNeg(a) == IF IsNaN(a) THEN NaN ELSE 0 - a

\* rightY, rightX, leftX: the controller's axis readings.
TeleopPeriodic(rightY, rightX, leftX, beh) ==
    /\ DriveCall(FNeg(rightY), FNeg(rightX), FNeg(leftX), FALSE, beh)
    /\ UNCHANGED <<autonomous_command, scheduled, cancelled, made>>

\* scheduler.run(): every scheduled command runs.  A stop command calls
\* Drive.stop and is finished; any other command may end (ended is the set of
\* those that do) or stay scheduled.
RobotPeriodic(ended) ==
    LET stops == {c \in scheduled : c.kind = "stop"}
    IN  /\ stops \subseteq ended
        /\ scheduled' = scheduled \ ended
        /\ IF stops # {} THEN StopCall("command") ELSE UNCHANGED driveVars
        /\ UNCHANGED <<autonomous_command, cancelled, made>>

\* ------------------------------------------- Drive after construction
SeqInputs == {0 - MaxIn, 1}
SeqCfgs == {c \in Cfgs : /\ c.TRANSLATION_DEADBAND = c.ROTATION_DEADBAND
                         /\ c.MAX_TRANSLATION_OUTPUT = c.MAX_ROTATION_OUTPUT}
\* One configuration, for the specifications whose claims do not turn on it.
PlainCfgs == {c \in SeqCfgs : c.TRANSLATION_DEADBAND = 1 /\ c.MAX_TRANSLATION_OUTPUT = 1}
Shapes == {None} \cup {o \in Overrides : o.cand = 1}

Constructed(cfgs, shapes) ==
    /\ phoenix = TRUE
    /\ dtCand = <<>> /\ afCand = <<>>
    /\ probes = <<>> /\ built = <<>>
    /\ phase = "constructed"
    /\ cfg \in cfgs
    /\ tuner_drivetrain \in shapes
    /\ autonomous_factory \in {0, 1}
    /\ drive_motors = [i \in 1..NumModules |-> NoCmd]
    /\ steer_motors = [i \in 1..NumModules |-> NoCmd]
    /\ last = NoCall

RobotIdle ==
    /\ mode = "none"
    /\ pos = "idle"
    /\ autonomous_command = NoCommand
    /\ scheduled = {}
    /\ cancelled = {}
    /\ made = 0

\* ------------------------------------------------- the Drive's operations
drive ==
    /\ \E x \in SeqInputs, y \in SeqInputs, r \in SeqInputs, fo \in BOOLEAN,
          beh \in DriveOutcomes :
            DriveCall(x, y, r, fo, beh)
    /\ UNCHANGED <<ctorVars, robotVars>>

stop ==
    /\ StopCall("direct")
    /\ UNCHANGED <<ctorVars, robotVars>>

get_autonomous_command ==
    /\ \E g \in GetterOutcomes, f1 \in FactoryOutcomes :
         \E f2 \in RetryOutcomes(f1) :
            GetAutonomousCommandCall(g, f1, f2)
    /\ UNCHANGED <<ctorVars, robotVars>>

\* The command last returned is the stop command, and it is run.
run_stop_command ==
    /\ last.ret = "stop"
    /\ StopCall("command")
    /\ UNCHANGED <<ctorVars, robotVars>>

InitDrive == Constructed(SeqCfgs, Shapes) /\ RobotIdle
NextDrive == drive \/ stop \/ get_autonomous_command \/ run_stop_command
SpecDrive == InitDrive /\ [][NextDrive]_vars

\* ------------------------------------- one call of drive(), all inputs
first_drive ==
    /\ last = NoCall
    /\ \E x \in Inputs, y \in Inputs, r \in Inputs, beh \in DriveOutcomes :
            DriveCall(x, y, r, FALSE, beh)
    /\ UNCHANGED <<ctorVars, robotVars>>

MixerShapes == {None, [cand |-> 1, drive |-> TRUE, getter |-> TRUE]}
InitMixer == Constructed(Cfgs, MixerShapes) /\ autonomous_factory = 0 /\ RobotIdle
NextMixer == first_drive
SpecMixer == InitMixer /\ [][NextMixer]_vars

\* ------------------------------------------------------ construction
__init__ ==
    /\ \E hasDrive \in BOOLEAN, hasGetter \in BOOLEAN : Construct(hasDrive, hasGetter)
    /\ UNCHANGED robotVars

InitNew ==
    /\ phoenix \in BOOLEAN
    /\ dtCand \in [1..NumCandidates -> DtOutcomes]
    /\ afCand \in [1..NumCandidates -> AfOutcomes]
    /\ phase = "new"
    /\ probes = <<>> /\ built = <<>>
    /\ cfg \in PlainCfgs
    /\ tuner_drivetrain = None
    /\ autonomous_factory = 0
    /\ drive_motors = <<>> /\ steer_motors = <<>>
    /\ last = NoCall
    /\ RobotIdle
NextInit == __init__
SpecInit == InitNew /\ [][NextInit]_vars

\* ------------------------------------------------ the robot's lifecycle
\* The host runs one loop iteration per period: on a change of mode the old
\* mode's exit callback and the new mode's init callback, then the mode's
\* periodic callback, then robotPeriodic.  pos is "idle" between iterations,
\* "inited" after an init callback, "ran" after the periodic callback, and
\* "crashed" once a callback has let an exception escape: the program is over.
\* The exit callbacks are all `pass` and are part of the step that enters
\* the next mode.
Enter(m) ==
    /\ pos = "idle"
    /\ mode # m
    /\ mode' = m
    /\ pos' = IF last'.outcome = "raised" THEN "crashed" ELSE "inited"

Periodic(m) ==
    /\ mode = m
    /\ pos \in {"idle", "inited"}
    /\ pos' = IF last'.outcome = "raised" THEN "crashed" ELSE "ran"
    /\ UNCHANGED mode

disabledInit ==
    /\ UNCHANGED <<ctorVars, driveVars, autonomous_command, scheduled, cancelled, made>>
    /\ Enter("disabled")

testInit ==
    /\ UNCHANGED <<ctorVars, driveVars, autonomous_command, scheduled, cancelled, made>>
    /\ Enter("test")

autonomousInit ==
    /\ made < MaxCmds
    /\ \E g \in GetterOutcomes, f1 \in FactoryOutcomes, id \in 1..MaxCmds :
         \E f2 \in RetryOutcomes(f1) :
            AutonomousInit(g, f1, f2, id)
    /\ Enter("autonomous")
    /\ UNCHANGED ctorVars

teleopInit ==
    /\ TeleopInit
    /\ UNCHANGED <<ctorVars, driveVars>>
    /\ Enter("teleop")

disabledPeriodic ==
    /\ UNCHANGED <<ctorVars, driveVars, autonomous_command, scheduled, cancelled, made>>
    /\ Periodic("disabled")

testPeriodic ==
    /\ UNCHANGED <<ctorVars, driveVars, autonomous_command, scheduled, cancelled, made>>
    /\ Periodic("test")

autonomousPeriodic ==
    /\ UNCHANGED <<ctorVars, driveVars, autonomous_command, scheduled, cancelled, made>>
    /\ Periodic("autonomous")

teleopPeriodic ==
    /\ mode = "teleop"
    /\ \E rightY \in SeqInputs, rightX \in SeqInputs, leftX \in SeqInputs,
          beh \in DriveOutcomes :
            TeleopPeriodic(rightY, rightX, leftX, beh)
    /\ Periodic("teleop")
    /\ UNCHANGED ctorVars

robotPeriodic ==
    /\ pos = "ran"
    /\ pos' = "idle"
    /\ \E ended \in SUBSET scheduled : RobotPeriodic(ended)
    /\ UNCHANGED <<ctorVars, mode>>

InitRobot == Constructed(PlainCfgs, MixerShapes) /\ RobotIdle
NextRobot ==
    \/ disabledInit \/ autonomousInit \/ teleopInit \/ testInit
    \/ disabledPeriodic \/ autonomousPeriodic \/ teleopPeriodic \/ testPeriodic
    \/ robotPeriodic
SpecRobot == InitRobot /\ [][NextRobot]_vars

\* ===================================================================
\* Properties
\* ===================================================================
MixerRan == last.op = "drive" /\ last.outcome = "mixer"
InRange(v) == 0 - One <= v /\ v <= One
Modules == 1..NumModules

\* C1: whenever drive() has run the built-in mixer, every one of the four
\* drive motors and every steer motor was commanded, and with a duty cycle in
\* [-1, 1], whatever the inputs (NaN included).
C1_MixerDutyInRange ==
    MixerRan =>
        /\ Len(drive_motors) = NumModules /\ Len(steer_motors) = NumModules
        /\ \A i \in Modules : InRange(drive_motors[i]) /\ InRange(steer_motors[i])
        /\ Len(last.issued) = 2 * NumModules
        /\ \A k \in DOMAIN last.issued : InRange(last.issued[k][3])

\* C1 witness: the mixer ran on inputs whose raw sums lie outside [-1, 1] on
\* both sides, and the commands sit on the two limits.
C1_Witness ==
    /\ MixerRan
    /\ drive_motors[1] = One
    /\ drive_motors[2] = 0 - One
    /\ last.args[1] = MaxIn

\* C2: after stop(), called directly in any state, the last duty cycle
\* commanded to every drive motor and every steer motor is exactly 0, with or
\* without an override.
C2_StopZeroesAll ==
    (last.op = "stop" /\ last.via = "direct") =>
        /\ Len(drive_motors) = NumModules /\ Len(steer_motors) = NumModules
        /\ \A i \in Modules : drive_motors[i] = 0 /\ steer_motors[i] = 0
        /\ Len(last.issued) = 2 * NumModules
        /\ \A k \in DOMAIN last.issued : last.issued[k][3] = 0

\* C2 witness: stop() was called with an override present while drive and
\* steer motors held non-zero commands.
C2_Witness ==
    /\ last.op = "stop" /\ last.via = "direct"
    /\ tuner_drivetrain # None
    /\ Len(last.prev) = 2 * NumModules
    /\ last.prev[1] = One
    /\ last.prev[NumModules + 1] \notin {0, NoCmd}
    /\ \A i \in Modules : drive_motors[i] = 0 /\ steer_motors[i] = 0

\* C3: when the mixer runs, with x, y, omega the deadbanded and gain-scaled
\* inputs, the drive motors receive, in module order, clamp(x+y+omega),
\* clamp(x-y-omega), clamp(x-y+omega), clamp(x+y-omega), and every steer motor
\* receives clamp(omega).
C3_MixerSignTable ==
    MixerRan =>
        LET s == Shaped(last.args[1], last.args[2], last.args[3])
        IN  /\ Len(drive_motors) = NumModules
            /\ drive_motors[1] = _clamp(FAdd(FAdd(s.x, s.y), s.omega))
            /\ drive_motors[2] = _clamp(FSub(FSub(s.x, s.y), s.omega))
            /\ drive_motors[3] = _clamp(FAdd(FSub(s.x, s.y), s.omega))
            /\ drive_motors[4] = _clamp(FSub(FAdd(s.x, s.y), s.omega))
            /\ \A i \in Modules : steer_motors[i] = _clamp(s.omega)
            /\ \A i \in Modules : last.issued[i] = <<"drive", i, drive_motors[i]>>
            /\ \A i \in Modules :
                 last.issued[NumModules + i] = <<"steer", i, _clamp(s.omega)>>

\* C3 witness: the mixer ran and the four drive commands are pairwise
\* different, with none of them on a limit, so the sign table shows.
C3_Witness ==
    /\ MixerRan
    /\ Cardinality({drive_motors[i] : i \in Modules}) = NumModules
    /\ \A i \in Modules : drive_motors[i] \notin {One, 0 - One}
    /\ steer_motors[1] # 0

\* The deadband as the claim words it: a magnitude below the deadband.
BelowDeadband(v, deadband) == ~IsNaN(v) /\ 0 - deadband < v /\ v < deadband
Contribution(v, deadband, gain) ==
    IF BelowDeadband(v, deadband) THEN 0 ELSE FMul(v, gain)
ExpectedShaped ==
    [x |-> Contribution(last.args[1], cfg.TRANSLATION_DEADBAND, cfg.MAX_TRANSLATION_OUTPUT),
     y |-> Contribution(last.args[2], cfg.TRANSLATION_DEADBAND, cfg.MAX_TRANSLATION_OUTPUT),
     omega |-> Contribution(last.args[3], cfg.ROTATION_DEADBAND, cfg.MAX_ROTATION_OUTPUT)]
AllBelowDeadband ==
    /\ BelowDeadband(last.args[1], cfg.TRANSLATION_DEADBAND)
    /\ BelowDeadband(last.args[2], cfg.TRANSLATION_DEADBAND)
    /\ BelowDeadband(last.args[3], cfg.ROTATION_DEADBAND)

\* C4: when the mixer runs, an input below its axis's deadband contributes
\* exactly 0 (the commands are those of the same call with that input 0), and
\* with all three inputs below their deadbands every motor is commanded 0.
C4_DeadbandContributesZero ==
    MixerRan =>
        /\ drive_motors = DriveOutputs(ExpectedShaped)
        /\ \A i \in Modules : steer_motors[i] = SteerOutput(ExpectedShaped)
        /\ AllBelowDeadband =>
             \A i \in Modules : drive_motors[i] = 0 /\ steer_motors[i] = 0

\* C4 witness: a non-zero x below the translation deadband, y and the
\* rotation at or above theirs, and motors that are commanded non-zero.
C4_Witness ==
    /\ MixerRan
    /\ last.args[1] # 0 /\ BelowDeadband(last.args[1], cfg.TRANSLATION_DEADBAND)
    /\ ~BelowDeadband(last.args[2], cfg.TRANSLATION_DEADBAND) /\ ~IsNaN(last.args[2])
    /\ ~BelowDeadband(last.args[3], cfg.ROTATION_DEADBAND) /\ ~IsNaN(last.args[3])
    /\ drive_motors[1] # 0 /\ steer_motors[1] # 0

\* What the claim says get_autonomous_command returns, from what the callables
\* did on this call (last.env = <<g, f1, f2>>).
OverrideSupplies ==
    /\ tuner_drivetrain # None /\ tuner_drivetrain.getter
    /\ last.env[1] = "command"
FactoryBuilds ==
    /\ autonomous_factory # 0
    /\ (IF last.env[2] = "TypeError" THEN last.env[3] ELSE last.env[2]) = "command"
ExpectedCommand ==
    IF OverrideSupplies THEN "override"
    ELSE IF FactoryBuilds THEN "factory" ELSE "stop"

\* C5: a get_autonomous_command() that returns gives the override's command
\* if an override is present and supplies one, else the factory's command,
\* else a stop command; with no override and no factory it calls neither and
\* returns the stop command; and the stop command, when run, issues the zero
\* commands of stop() and nothing else.
C5_AutonomousPrecedence ==
    /\ (last.op = "get_autonomous_command" /\ last.outcome = "returned") =>
          /\ last.ret = ExpectedCommand
          /\ (tuner_drivetrain = None /\ autonomous_factory = 0) =>
                /\ last.ret = "stop"
                /\ last.getterCalls = 0 /\ last.factoryCalls = <<>>
          /\ last.ret = "override" => last.factoryCalls = <<>>
    /\ last.via = "command" =>
          /\ last.op = "stop"
          /\ last.tunerCalls = <<>> /\ last.getterCalls = 0 /\ last.factoryCalls = <<>>
          /\ Len(last.issued) = 2 * NumModules
          /\ \A k \in DOMAIN last.issued : last.issued[k][3] = 0
          /\ \A i \in Modules : drive_motors[i] = 0 /\ steer_motors[i] = 0

\* C5 witness: an override and a factory are both present, the override's
\* getter was called and supplied nothing, and the factory's command (built on
\* the retry with the Drive) was returned.
C5_Witness ==
    /\ last.op = "get_autonomous_command" /\ last.outcome = "returned"
    /\ tuner_drivetrain # None /\ last.getterCalls = 1
    /\ last.factoryCalls = <<"noargs", "self">>
    /\ last.ret = "factory"

\* C6: constructing Drive without the vendor driver fails with the
\* RuntimeError, with no motor handle created, no candidate module probed and
\* no override constructed.
C6_VendorMissingFails ==
    (phase # "new" /\ ~phoenix) =>
        /\ phase = "failed" /\ last.outcome = "RuntimeError"
        /\ drive_motors = <<>> /\ steer_motors = <<>>
        /\ probes = <<>> /\ built = <<>>
        /\ tuner_drivetrain = None /\ autonomous_factory = 0

\* C6 witness: construction failed without the vendor driver although an
\* override class and a factory were there to be found.
C6_Witness ==
    /\ phase = "failed" /\ ~phoenix
    /\ dtCand[1] = "ok" /\ afCand[1] = "ok"
    /\ last.op = "__init__"

\* The first candidate, in probing order, whose class (function) is found.
Found(cand, i) == cand[i] \in {"ctor_raises", "ok"}
FirstFound(cand) ==
    IF \E i \in 1..NumCandidates : Found(cand, i)
    THEN CHOOSE i \in 1..NumCandidates :
            Found(cand, i) /\ \A j \in 1..(i - 1) : ~Found(cand, j)
    ELSE 0

\* C7: with the vendor driver available, whatever probing each candidate
\* meets, construction completes with one drive and one steer handle per
\* module, at most one override is constructed, and the first candidate found
\* is the one used.
C7_DiscoveryNeverFatal ==
    (phase # "new" /\ phoenix) =>
        /\ phase = "constructed"
        /\ Len(drive_motors) = NumModules /\ Len(steer_motors) = NumModules
        /\ Len(built) <= 1
        /\ tuner_drivetrain # None => tuner_drivetrain.cand = FirstFound(dtCand)
        /\ autonomous_factory # 0 => autonomous_factory = FirstFound(afCand)

\* C8: when the override's drive raises TypeError the mixer runs and commands
\* every drive and steer motor; when it raises anything else the call raises
\* and no motor command is issued.
C8_TypeErrorFallsBack ==
    (last.op = "drive" /\ last.tunerCalls # <<>>) =>
        /\ last.env[1] = "TypeError" =>
              /\ last.outcome = "mixer"
              /\ Len(last.issued) = 2 * NumModules
              /\ \A i \in Modules : drive_motors[i] # NoCmd /\ steer_motors[i] # NoCmd
        /\ last.env[1] = "Exception" =>
              /\ last.outcome = "raised"
              /\ last.issued = <<>>

\* C8 witness: the override's drive was called, raised TypeError, and the
\* mixer commanded the motors.
C8_Witness ==
    /\ last.op = "drive" /\ Len(last.tunerCalls) = 1
    /\ last.env[1] = "TypeError"
    /\ last.outcome = "mixer"
    /\ drive_motors[1] = One /\ steer_motors[1] # NoCmd

\* C9: drive() calls the override's drive exactly once, with the four
\* arguments as given, when an override is present and its drive is callable,
\* and if that returns no motor command is issued; otherwise the override is
\* not called and the mixer runs.
C9_DelegatesToOverride ==
    last.op = "drive" =>
        IF tuner_drivetrain # None /\ tuner_drivetrain.drive
        THEN /\ last.tunerCalls = <<last.args>>
             /\ last.env[1] = "returns" =>
                   last.outcome = "delegated" /\ last.issued = <<>>
        ELSE /\ last.tunerCalls = <<>>
             /\ last.outcome = "mixer"
             /\ Len(last.issued) = 2 * NumModules

\* C9 witness: a field-oriented call was delegated and returned; the motors
\* still hold what an earlier mixer run commanded.
C9_Witness ==
    /\ last.op = "drive" /\ last.outcome = "delegated"
    /\ last.args[4] = TRUE
    /\ last.tunerCalls = <<last.args>>
    /\ drive_motors[1] = One

\* C10: in teleop, that is, after teleopInit, the robot holds no autonomous
\* command and no command scheduled by an autonomousInit is still scheduled.
C10_TeleopLeavesNoAutonomous ==
    mode = "teleop" =>
        /\ autonomous_command = NoCommand
        /\ scheduled = {}

====
